---- MODULE Spec2Model ----
(***************************************************************************)
(* Hub/spoke coordination of mpi-sppy, centred on the Lagrangian outer     *)
(* bound spoke (mpisppy/cylinders/lagrangian_bounder.py).                  *)
(*                                                                         *)
(* The spoke's main(), do_while_waiting_for_new_Ws(), lagrangian(),        *)
(* _set_weights_and_solve() and finalize() are translated from the source. *)
(* The SharedChannel (write / try_read), the hub, and the spoke base class *)
(* operations got_kill_signal, update_Ws and send_bound live in modules of *)
(* the repository that are not part of the source at hand; they are        *)
(* modelled from the specification (sections 3, 4.1, 4.3 and 5).           *)
(***************************************************************************)
EXTENDS Integers, Sequences, FiniteSets, TLC

(* ------------------------------ bounds -------------------------------- *)
\* the hub publishes at most MaxVersion versions (its iteration cap)
MaxVersion == 2
\* a spoke performs at most MaxIdle polls that find nothing new
MaxIdle == 1
\* replay comparison: the longest sequence of delivered versions, and the
\* most polls of one run that find nothing new
MaxFeed == 2
MaxReplayIdle == 1
\* evaluator: the most calls made on one Xhat_Eval object
MaxCalls == 3

(* --------------------------- configuration ---------------------------- *)
\* the number of spokes is configuration, fixed at startup: a run with one
\* spoke and a run with two
OneSpoke == {1}
TwoSpokes == {1, 2}
\* the local subproblems of a spoke; the flat weight list has one entry each
Scens == {1, 2}
\* order in which the cells of the flat list are stored and read
CellOrder == <<1, 2>>
NumCells == Len(CellOrder)
\* the weight vectors the hub's primal algorithm may produce
WChoices == {<<5, -3>>, <<-3, 5>>}
\* caller-supplied initial weights (PH_Prep leaves W at zero)
InitW == [k \in Scens |-> 0]
\* scenario probabilities, in percent
Prob == [k \in Scens |-> IF k = 1 THEN 60 ELSE 40]
\* the relaxed subproblem of scenario k: min Base[k] + (Cost[k] + w) * x, x in {0,1}
Base == [k \in Scens |-> IF k = 1 THEN 10 ELSE 22]
Cost == [k \in Scens |-> IF k = 1 THEN 0 ELSE 1]
\* step length of the idle-time subgradient update
Rho == 5

\* the ways the option "subgradient_while_waiting" can be configured: the
\* key absent, or present with a boolean value
OptionEntries == {[present |-> FALSE, value |-> FALSE],
                  [present |-> TRUE, value |-> FALSE],
                  [present |-> TRUE, value |-> TRUE]}

\* an absent bound (Python None) and a bound value
None == [ok |-> FALSE, val |-> 0]
Some(v) == [ok |-> TRUE, val |-> v]

VARIABLES
    hubPc,      \* "iterate" | "store" | "publish" | "done"
    hubIdx,     \* position in CellOrder of the next cell the write stores
    pending,    \* the data vector of the write in progress
    buf,        \* SharedChannel: raw storage of the published weights
    wbegin,     \* SharedChannel: number of writes begun
    version,    \* SharedChannel: version counter (number of writes completed)
    written,    \* history: written[v] is the data the hub wrote as version v
    kill,       \* TerminationFlag
    killSets,   \* history: how often the hub has set the flag
    collected,  \* hub: per spoke, the number of reports it has collected
    sp,         \* per spoke: its private state (SpokeState) and position in main()
    replay,     \* two runs of main() fed the same versions (replay comparison)
    xe          \* an Xhat_Eval object and the outcome of the last call on it

vars == <<hubPc, hubIdx, pending, buf, wbegin, version, written, kill,
          killSets, collected, sp, replay, xe>>

\* the variables of the comparisons and of the evaluator, untouched by the
\* hub/spoke protocol
auxVars == <<replay, xe>>

\* the spokes of the run: each has its own SpokeState and its own report
\* channel and runs the same main() against the one hub; no step adds or
\* removes a spoke
Spokes == DOMAIN sp

hubVars == <<hubPc, hubIdx, pending, buf, wbegin, version, written, kill,
             killSets, collected>>

(* ------------------- the solver and the bound (pure) ------------------- *)
\* external solver: the minimiser of the relaxed subproblem k under weights w
SolveX(k, w) == IF Cost[k] + w[k] < 0 THEN 1 ELSE 0

\* external solver: the optimum of the relaxed subproblem k under weights w
Optimum(k, w) == Base[k] + (Cost[k] + w[k]) * SolveX(k, w)

RECURSIVE SumOver(_, _)
SumOver(S, f) ==
    IF S = {} THEN 0
    ELSE LET k == CHOOSE e \in S : TRUE IN f[k] + SumOver(S \ {k}, f)

\* Ebound: probability-weighted sum of the local optima (in hundredths)
Ebound(w) == SumOver(Scens, [k \in Scens |-> Prob[k] * Optimum(k, w)])

\* lagrangian() (lines 22-48): solve_loop over the local subproblems, then
\* Ebound; an unusable solve yields no bound. receive_nonant_bounds() only
\* tightens variable bounds and the option lookups only affect output.
lagrangian(feasible, w) == IF feasible THEN Some(Ebound(w)) ELSE None

\* Compute_Xbar: probability-weighted consensus point (in hundredths)
Compute_Xbar(x) == SumOver(Scens, [k \in Scens |-> Prob[k] * x[k]])

\* Update_W: W += rho * (x - xbar), one subgradient step
Update_W(w, x) ==
    [k \in Scens |-> w[k] + (Rho * (100 * x[k] - Compute_Xbar(x))) \div 100]

\* mutation: the received weights are not installed
weights_not_set(oldW, localWs) == oldW

\* _set_weights_and_solve, line 62: W_from_flat_list(self.localWs) makes the
\* received weights the solver's weights (they carry their version along)
set_weights(oldW, localWs) == localWs

(* ---------------------- SharedChannel and the hub ---------------------- *)
\* mutation: a one-bit version counter, which wraps
NextVersionWraps(v) == (v + 1) % 2

\* the version a write will publish
NextVersion(v) == v + 1

\* mutation: the version counter is bumped before the data is stored
VersionBumpedFirst(v) == v + 1

\* the version counter while a write is storing its data: not yet bumped
VersionAtBegin(v) == v

\* has_new_since(last_seen_version)
HasNewSince(v, last) == v > last

\* try_read's consistency check: no write began after the version was read
ReadIsConsistent(v, wb) == wb = v

\* mutation: the hub's look at the report channels empties them
CollectConsumes(spk) ==
    [s \in DOMAIN spk |-> [spk[s] EXCEPT !.report = [@ EXCEPT !.seq = 0]]]

\* the hub only reads the report channels: the spokes' state after the hub
\* has collected is the state before
AfterCollect(spk) == spk

\* mutation: the hub waits until every spoke has reported
HubWaitsForReports(reps) == \A s \in DOMAIN reps : reps[s].seq > 0

\* the hub's termination decision looks at no spoke
HubMayDecide(reps) == TRUE

\* the hub after raising the flag
HubAfterTerminate == "done"

\* mutation: the spoke reads a copy of the flag taken at startup
got_stale_kill_signal(flag) == FALSE

\* got_kill_signal(): the current value of the TerminationFlag
got_kill_signal(flag) == flag

\* the reports the hub finds when it looks, without waiting for any
Collect(reps) == [s \in Spokes |-> reps[s].seq]

\* one hub iteration: collect what is there, compute, and begin write(data)
HubIterate ==
    /\ hubPc = "iterate"
    /\ version < MaxVersion
    /\ \E d \in WChoices :
         /\ pending' = d
         /\ wbegin' = NextVersion(version)
         /\ version' = VersionAtBegin(version)
         /\ hubIdx' = 1
         /\ written' = [written EXCEPT ![NextVersion(version)] = d]
         /\ hubPc' = "store"
    /\ collected' = Collect([s \in Spokes |-> sp[s].report])
    /\ sp' = AfterCollect(sp)
    /\ UNCHANGED <<buf, kill, killSets>>
    /\ UNCHANGED auxVars

\* write(data): one cell of the data is stored
HubStore ==
    /\ hubPc = "store"
    /\ buf' = [buf EXCEPT ![CellOrder[hubIdx]] = pending[CellOrder[hubIdx]]]
    /\ hubIdx' = hubIdx + 1
    /\ hubPc' = IF hubIdx = NumCells THEN "publish" ELSE "store"
    /\ UNCHANGED <<pending, wbegin, version, written, kill, killSets,
                   collected, sp>>
    /\ UNCHANGED auxVars

\* write(data): the version counter is updated, the last visible step
HubPublish ==
    /\ hubPc = "publish"
    /\ version' = wbegin
    /\ hubPc' = "iterate"
    /\ UNCHANGED <<hubIdx, pending, buf, wbegin, written, kill, killSets,
                   collected, sp>>
    /\ UNCHANGED auxVars

\* the hub decides termination and raises the flag
HubTerminate ==
    /\ hubPc = "iterate"
    /\ HubMayDecide([s \in Spokes |-> sp[s].report])
    /\ kill' = TRUE
    /\ killSets' = killSets + 1
    /\ hubPc' = HubAfterTerminate
    /\ collected' = Collect([s \in Spokes |-> sp[s].report])
    /\ sp' = AfterCollect(sp)
    /\ UNCHANGED <<hubIdx, pending, buf, wbegin, version, written>>
    /\ UNCHANGED auxVars

HubNext == HubIterate \/ HubStore \/ HubPublish \/ HubTerminate

(* ------------------------- the bounding spoke -------------------------- *)
\* mutation: the loop condition lost its negation
LoopOnlyOnKill(gotKill) == gotKill

\* mutation: the loop ignores the kill signal
LoopIgnoresKill(gotKill) == TRUE

\* main(), line 97: the loop runs while no kill signal was read
LoopContinues(gotKill) == ~gotKill

\* mutation: the WORKING branch is taken whatever update_Ws() returned
AlwaysWorking(isNew) == TRUE

\* main(), line 98: the WORKING branch is taken when update_Ws() is true
WorkingBranch(isNew) == isNew

\* lines 71 and 104: a bound is sent when it is not None
SendsBound(b) == b.ok

\* mutation: the idle-time action defaults to on
IdleActionDefaultsOn(opt) == IF opt.present THEN opt.value ELSE TRUE

\* line 66: options.get("subgradient_while_waiting", False)
IdleActionEnabled(opt) == IF opt.present THEN opt.value ELSE FALSE

\* mutation: hooks are called whether or not extensions are registered
HookAlways(ext, name) == <<name>>

\* lines 80, 87, 94, 99, 102, 106: `if extensions:` guards each hook call;
\* the result is what the call adds to the record of the current phase
Hook(ext, name) == IF ext THEN <<name>> ELSE <<>>

\* mutation: the call of lagrangian_prep is missing
prep_skipped(n) == n

\* line 78: self.lagrangian_prep() (lines 14-20), counted
lagrangian_prep(n) == n + 1

\* mutation: the end of a WORKING step does not count
PHIter_stuck(n) == n

\* line 108: self.opt._PHIter += 1 at the end of a WORKING step
next_PHIter(n) == n + 1

\* mutation: finalize keeps the iteration-0 bound
final_is_trivial(r) == r.trivial_bound

\* finalize, line 51: self.final_bound = self.bound
final_bound_of(r) == r.bound

\* the spoke's report channel before anything was sent
NoReport == [kind |-> "none", val |-> None, tag |-> 0, seq |-> 0, from |-> 0]

\* send_bound(value): the report, labelled with the version last consumed
\* and the spoke's next sequence number, replaces the content of the spoke's
\* report channel and becomes the spoke's current bound. kind and from
\* record which step sent it and the version of the weights it was solved with.
\* sentAfter counts the reports sent while the flag was already set.
send_bound(r, kind, value, from) ==
    [r EXCEPT !.report = [kind |-> kind, val |-> value, tag |-> r.lastSeen,
                          seq |-> @.seq + 1, from |-> from],
              !.bound = value,
              !.sentAfter = IF kill THEN @ + 1 ELSE @,
              !.log = Append(@, "send")]

\* mutation: iteration 0 sends nothing
Iter0NoReport(r) == r

\* the report of iteration 0 (line 93)
Iter0Report(r) == send_bound(r, "trivial", r.trivial_bound, r.bndVer)

SpokeInit(opt, ext) ==
    [pc |-> "init", options |-> opt, extensions |-> ext,
     log |-> <<>>, sentAfter |-> 0, posts |-> 0, hasPost |-> FALSE,
     ret |-> None,
     rdVer |-> 0, rdIdx |-> 1, rdBuf |-> InitW, obs |-> 0, isNew |-> FALSE,
     lastSeen |-> 0, localWs |-> [w |-> InitW, ver |-> 0],
     W |-> [w |-> InitW, ver |-> 0], x |-> [k \in Scens |-> 0],
     bnd |-> None, bndVer |-> 0, trivial_bound |-> None, bound |-> None,
     final_bound |-> None, PHIter |-> 0, report |-> NoReport, nIdle |-> 0,
     polled |-> FALSE, got_kill |-> FALSE, flagRead |-> FALSE, solves |-> 0,
     preps |-> 0, lateStart |-> FALSE, torn |-> FALSE]

\* main() is entered (lines 74-76)
Start(s) ==
    /\ sp[s].pc = "init"
    /\ sp' = [sp EXCEPT ![s] = [@ EXCEPT !.pc = "prep", !.lateStart = kill]]
    /\ UNCHANGED <<hubVars, auxVars>>

\* lagrangian_prep() (lines 14-20, 78), pre_iter0 (lines 80-81) and
\* _PHIter = 0 (line 84)
LagrangianPrep(s) ==
    /\ sp[s].pc = "prep"
    /\ sp' = [sp EXCEPT ![s] = [@ EXCEPT !.pc = "iter0_solve",
                                         !.preps = lagrangian_prep(@),
                                         !.log = Hook(sp[s].extensions, "pre_iter0"),
                                         !.PHIter = 0]]
    /\ UNCHANGED <<hubVars, auxVars>>

\* the iteration-0 solve with the initial weights (lines 85-91)
Iter0Solve(s) ==
    /\ sp[s].pc = "iter0_solve"
    /\ \E feasible \in BOOLEAN :
         sp' = [sp EXCEPT ![s] =
                  [@ EXCEPT !.pc = "iter0_send",
                            !.trivial_bound = lagrangian(feasible, sp[s].W.w),
                            !.bndVer = sp[s].W.ver,
                            !.x = [k \in Scens |-> SolveX(k, sp[s].W.w)],
                            !.solves = @ + 1,
                            !.log = @ \o <<"iter0_solve">>
                                      \o Hook(sp[s].extensions, "post_iter0"),
                            !.PHIter = @ + 1]]
    /\ UNCHANGED <<hubVars, auxVars>>

\* send_bound(self.trivial_bound) (lines 93-95)
Iter0Send(s) ==
    /\ sp[s].pc = "iter0_send"
    /\ sp' = [sp EXCEPT ![s] =
                [Iter0Report(@) EXCEPT
                   !.log = @ \o Hook(sp[s].extensions, "post_iter0_after_sync"),
                   !.pc = "check_kill"]]
    /\ UNCHANGED <<hubVars, auxVars>>

\* while not self.got_kill_signal() (line 97); a new phase begins, so the
\* record of the last one is dropped. A spoke that has used up its
\* MaxIdle fruitless polls is next scheduled when there is something to see.
GotKillSignal(s) ==
    /\ sp[s].pc = "check_kill"
    /\ kill \/ version > sp[s].lastSeen \/ sp[s].nIdle < MaxIdle
    /\ LET g == got_kill_signal(kill) IN
         sp' = [sp EXCEPT ![s] =
                  [@ EXCEPT !.got_kill = g,
                            !.flagRead = TRUE,
                            !.log = <<>>,
                            !.pc = IF LoopContinues(g) THEN "update_Ws"
                                   ELSE "done"]]
    /\ UNCHANGED <<hubVars, auxVars>>

\* update_Ws(), first step: read the version counter; nothing to read when
\* nothing was published or nothing is new (line 98)
ReadVersion(s) ==
    /\ sp[s].pc = "update_Ws"
    /\ LET v == version
           new == v > 0 /\ HasNewSince(v, sp[s].lastSeen) IN
         sp' = [sp EXCEPT ![s] =
                  [@ EXCEPT !.polled = TRUE,
                            !.obs = v,
                            !.rdVer = IF new THEN v ELSE 0,
                            !.isNew = FALSE,
                            !.pc = IF new THEN "read"
                                   ELSE IF WorkingBranch(FALSE) THEN "working"
                                   ELSE "idle"]]
    /\ UNCHANGED <<hubVars, auxVars>>

\* update_Ws(), try_read: copy one cell of the channel's storage
ReadCell(s) ==
    /\ sp[s].pc = "read"
    /\ LET c == CellOrder[sp[s].rdIdx] IN
         sp' = [sp EXCEPT ![s] =
                  [@ EXCEPT !.rdBuf = [@ EXCEPT ![c] = buf[c]],
                            !.rdIdx = @ + 1,
                            !.pc = IF sp[s].rdIdx = NumCells THEN "validate"
                                   ELSE "read"]]
    /\ UNCHANGED <<hubVars, auxVars>>

\* update_Ws(), try_read: accept the snapshot, or retry a torn read; the
\* read's temporaries are dead afterwards
ReadValidate(s) ==
    /\ sp[s].pc = "validate"
    /\ sp' = [sp EXCEPT ![s] =
                IF ReadIsConsistent(sp[s].rdVer, wbegin)
                THEN [@ EXCEPT !.localWs = [w |-> sp[s].rdBuf, ver |-> sp[s].rdVer],
                               !.lastSeen = sp[s].rdVer,
                               !.isNew = TRUE,
                               !.rdVer = 0, !.rdIdx = 1, !.rdBuf = InitW,
                               !.pc = IF WorkingBranch(TRUE) THEN "working"
                                      ELSE "idle"]
                ELSE [@ EXCEPT !.rdVer = 0, !.rdIdx = 1, !.rdBuf = InitW,
                               !.torn = TRUE,
                               !.pc = "update_Ws"]]
    /\ UNCHANGED <<hubVars, auxVars>>

\* miditer (lines 99-100), _set_weights_and_solve (lines 61-63, 101) and
\* enditer (lines 102-103)
SetWeightsAndSolve(s) ==
    /\ sp[s].pc = "working"
    /\ \E feasible \in BOOLEAN :
         LET newW == set_weights(sp[s].W, sp[s].localWs) IN
         sp' = [sp EXCEPT ![s] =
                  [@ EXCEPT !.W = newW,
                            !.bnd = lagrangian(feasible, newW.w),
                            !.bndVer = newW.ver,
                            !.x = [k \in Scens |-> SolveX(k, newW.w)],
                            !.solves = @ + 1,
                            !.log = Hook(sp[s].extensions, "miditer")
                                      \o <<"working_solve">>
                                      \o Hook(sp[s].extensions, "enditer"),
                            !.pc = "working_send"]]
    /\ UNCHANGED <<hubVars, auxVars>>

\* the report of a WORKING step and the end of the step (lines 104-108);
\* the local variable bound is dead afterwards
WorkingSend(s) ==
    /\ sp[s].pc = "working_send"
    /\ sp' = [sp EXCEPT ![s] =
                [(IF SendsBound(sp[s].bnd)
                  THEN send_bound(sp[s], "working", sp[s].bnd, sp[s].bndVer)
                  ELSE sp[s])
                 EXCEPT !.PHIter = next_PHIter(@), !.bnd = None,
                        !.log = @ \o Hook(sp[s].extensions, "enditer_after_sync"),
                        !.pc = "check_kill"]]
    /\ UNCHANGED <<hubVars, auxVars>>

\* do_while_waiting_for_new_Ws (lines 65-70, 110): nothing unless enabled,
\* else a subgradient step and a solve
DoWhileWaiting(s) ==
    /\ sp[s].pc = "idle"
    /\ sp[s].nIdle < MaxIdle
    /\ IF IdleActionEnabled(sp[s].options)
       THEN \E feasible \in BOOLEAN :
              LET newW == Update_W(sp[s].W.w, sp[s].x) IN
              sp' = [sp EXCEPT ![s] =
                       [@ EXCEPT !.W = [w |-> newW, ver |-> sp[s].W.ver],
                                 !.bnd = lagrangian(feasible, newW),
                                 !.bndVer = sp[s].W.ver,
                                 !.x = [k \in Scens |-> SolveX(k, newW)],
                                 !.solves = @ + 1,
                                 !.nIdle = @ + 1,
                                 !.log = <<"idle_solve">>,
                                 !.pc = "idle_send"]]
       ELSE sp' = [sp EXCEPT ![s] = [@ EXCEPT !.nIdle = @ + 1,
                                              !.pc = "check_kill"]]
    /\ UNCHANGED <<hubVars, auxVars>>

\* the speculative report of the idle-time step (lines 71-72)
IdleSend(s) ==
    /\ sp[s].pc = "idle_send"
    /\ sp' = [sp EXCEPT ![s] =
                [(IF SendsBound(sp[s].bnd)
                  THEN send_bound(sp[s], "idle", sp[s].bnd, sp[s].bndVer)
                  ELSE sp[s])
                 EXCEPT !.bnd = None, !.pc = "check_kill"]]
    /\ UNCHANGED <<hubVars, auxVars>>

\* finalize() (lines 50-55): final_bound is set, post_everything is called
\* when extensions are registered and the extension object has it, and
\* final_bound is returned
Finalize(s) ==
    /\ sp[s].pc = "done"
    /\ \E hasPost \in BOOLEAN :
         LET fb == final_bound_of(sp[s])
             called == sp[s].extensions /\ hasPost IN
         sp' = [sp EXCEPT ![s] =
                  [@ EXCEPT !.final_bound = fb,
                            !.hasPost = hasPost,
                            !.posts = IF called THEN @ + 1 ELSE @,
                            !.log = <<"final_bound">>
                                      \o (IF called THEN <<"post_everything">>
                                          ELSE <<>>)
                                      \o <<"return">>,
                            !.ret = fb,
                            !.pc = "finalized"]]
    /\ UNCHANGED <<hubVars, auxVars>>

SpokeNext(s) ==
    \/ Start(s) \/ LagrangianPrep(s) \/ Iter0Solve(s) \/ Iter0Send(s)
    \/ GotKillSignal(s) \/ ReadVersion(s) \/ ReadCell(s) \/ ReadValidate(s)
    \/ SetWeightsAndSolve(s) \/ WorkingSend(s) \/ DoWhileWaiting(s)
    \/ IdleSend(s) \/ Finalize(s)

(* ------------------- two runs fed the same versions -------------------- *)
\* Two runs of main() with the same initial weights, the same options and
\* the same deterministic solver are delivered the same sequence of
\* versions (replay.feed); only the timing differs: how many polls find
\* nothing new, and when. A step here is one pass through a branch of
\* main(); out is the sequence of reports the run has sent.
Runs == {1, 2}

RunInit ==
    [pc |-> "start", W |-> InitW, x |-> [k \in Scens |-> 0], next |-> 1,
     nIdle |-> 0, out |-> <<>>]

\* replay is not in use
NoReplay ==
    [feed |-> <<>>, opt |-> [present |-> FALSE, value |-> FALSE],
     infeasible |-> {}, run |-> [r \in Runs |-> RunInit]]

\* the sequences of weight vectors that can be delivered
Feeds == UNION {[1..n -> WChoices] : n \in 0..MaxFeed}

\* the deterministic solver: whether the relaxation is solvable under w
Solvable(w) == w \notin replay.infeasible

\* send_bound: the report joins the run's output
Emit(out, kind, value, tag) ==
    Append(out, [kind |-> kind, val |-> value, tag |-> tag])

\* lines 84-95: the iteration-0 solve and its report
RIter0(r) ==
    /\ replay.run[r].pc = "start"
    /\ LET run == replay.run[r]
           b == lagrangian(Solvable(run.W), run.W) IN
       replay' = [replay EXCEPT !.run[r] =
                    [run EXCEPT !.pc = "loop",
                                !.x = [k \in Scens |-> SolveX(k, run.W)],
                                !.out = Emit(run.out, "trivial", b, 0)]]
    /\ UNCHANGED <<hubVars, sp, xe>>

\* lines 97-108: update_Ws() delivers the next version, a WORKING step
RDeliver(r) ==
    /\ replay.run[r].pc = "loop"
    /\ replay.run[r].next <= Len(replay.feed)
    /\ WorkingBranch(TRUE)
    /\ LET run == replay.run[r]
           newW == set_weights(run.W, replay.feed[run.next])
           b == lagrangian(Solvable(newW), newW) IN
       replay' = [replay EXCEPT !.run[r] =
                    [run EXCEPT !.W = newW,
                                !.x = [k \in Scens |-> SolveX(k, newW)],
                                !.next = run.next + 1,
                                !.out = IF SendsBound(b)
                                        THEN Emit(run.out, "working", b, run.next)
                                        ELSE run.out]]
    /\ UNCHANGED <<hubVars, sp, xe>>

\* lines 109-110, 65-72: update_Ws() finds nothing new
RIdle(r) ==
    /\ replay.run[r].pc = "loop"
    /\ replay.run[r].nIdle < MaxReplayIdle
    /\ LET run == replay.run[r]
           newW == Update_W(run.W, run.x)
           b == lagrangian(Solvable(newW), newW) IN
       replay' = [replay EXCEPT !.run[r] =
                    IF IdleActionEnabled(replay.opt)
                    THEN [run EXCEPT !.W = newW,
                                     !.x = [k \in Scens |-> SolveX(k, newW)],
                                     !.nIdle = run.nIdle + 1,
                                     !.out = IF SendsBound(b)
                                             THEN Emit(run.out, "idle", b,
                                                       run.next - 1)
                                             ELSE run.out]
                    ELSE [run EXCEPT !.nIdle = run.nIdle + 1]]
    /\ UNCHANGED <<hubVars, sp, xe>>

\* line 97: the kill signal is seen once the whole feed was delivered
RStop(r) ==
    /\ replay.run[r].pc = "loop"
    /\ replay.run[r].next > Len(replay.feed)
    /\ ~LoopContinues(TRUE)
    /\ replay' = [replay EXCEPT !.run[r].pc = "done"]
    /\ UNCHANGED <<hubVars, sp, xe>>

ReplayNext == \E r \in Runs : RIter0(r) \/ RDeliver(r) \/ RIdle(r) \/ RStop(r)

(* ------------------------------ Xhat_Eval ------------------------------ *)
\* One Xhat_Eval object on one rank. Its local scenarios are Scens; with
\* bundling its only local subproblem is the bundle of both, otherwise the
\* subproblems are the scenarios. The solver, SPOpt.solve_one,
\* SPOpt.Eobjective, _fix_nonants and infeas_prob are external.
BundleKey == 0

local_scenarios == Scens
local_subproblems(bundling) == IF bundling THEN {BundleKey} ELSE Scens

\* the objective value of a subproblem at the fixed nonants
XObj == [k \in Scens \cup {BundleKey} |->
            IF k = 1 THEN 10 ELSE IF k = 2 THEN 20 ELSE 14]

\* the caller's function fct, R --> R
Fct(v) == v * v

\* outcomes of a call
XOk(v) == [kind |-> "ok", val |-> v]
XNone == [kind |-> "None", val |-> 0]
XRaise(e) == [kind |-> e, val |-> 0]

\* __init__ (lines 63-65): no solvers yet, no objs_dict attribute
XInit(bundling) ==
    [bundling |-> bundling, created |-> FALSE, creates |-> 0,
     earlySolve |-> FALSE, hasObjs |-> FALSE, objs |-> {}, infeas |-> {},
     fixed |-> FALSE, calls |-> 0, trace |-> <<>>, reduced |-> FALSE,
     op |-> "none", arg |-> 0, flag |-> FALSE, result |-> XNone]

\* mutation: the created flag is not consulted
create_solvers_every_time(x) ==
    [x EXCEPT !.creates = @ + 1, !.created = TRUE,
              !.trace = Append(@, "create_solvers")]

\* _lazy_create_solvers (lines 68-72)
lazy_create_solvers(x) ==
    IF x.created THEN x
    ELSE [x EXCEPT !.creates = @ + 1, !.created = TRUE,
                   !.trace = Append(@, "create_solvers")]

\* solve_one (lines 76-105) where it cannot fail: the solve of subproblem
\* k with the solver's outcome, then the value is stored if asked for.
\* The solve sets the feasibility of the scenarios of the subproblem;
\* earlySolve records a solve made before any solver was created.
solve_one(x, k, feasible, compute_val_at_nonant) ==
    LET y == lazy_create_solvers(x)
        covered == IF k = BundleKey THEN Scens ELSE {k} IN
    [y EXCEPT !.earlySolve = @ \/ ~y.created,
              !.infeas = IF feasible THEN @ \ covered ELSE @ \cup covered,
              !.trace = Append(@, "solve"),
              !.objs = IF compute_val_at_nonant THEN @ \cup {k} ELSE @]

RECURSIVE SolveEach(_, _, _, _)
\* the loop of solve_loop (lines 159-172) over the keys ks in order
SolveEach(x, ks, feas, compute_val_at_nonant) ==
    IF ks = <<>> THEN x
    ELSE SolveEach(solve_one(x, Head(ks), feas[Head(ks)], compute_val_at_nonant),
                   Tail(ks), feas, compute_val_at_nonant)

RECURSIVE InOrder(_)
\* the keys of a dictionary in iteration order
InOrder(S) ==
    IF S = {} THEN <<>>
    ELSE LET m == CHOOSE e \in S : \A o \in S : e <= o IN <<m>> \o InOrder(S \ {m})

\* solve_loop (lines 108-181): objs_dict is created anew when values are
\* asked for (lines 156-157)
solve_loop(x, use_scenarios_not_subproblems, feas, compute_val_at_nonant) ==
    LET y == lazy_create_solvers(x)
        s_source == IF use_scenarios_not_subproblems THEN local_scenarios
                    ELSE local_subproblems(x.bundling)
        z == IF compute_val_at_nonant
             THEN [y EXCEPT !.hasObjs = TRUE, !.objs = {}] ELSE y IN
    SolveEach(z, InOrder(s_source), feas, compute_val_at_nonant)

\* SPOpt.Eobjective: the expected objective over all ranks
ExpectedObjective == SumOver(Scens, [k \in Scens |-> Prob[k] * XObj[k]])

\* Eobjective (lines 209-229): the outcome and whether Allreduce was reached
Eobjective(x, withFct) ==
    LET y == lazy_create_solvers(x) IN
    IF ~withFct
    THEN [y EXCEPT !.result = XOk(ExpectedObjective), !.reduced = TRUE,
                   !.trace = Append(@, "Eobjective")]
    ELSE IF ~y.hasObjs
    THEN [y EXCEPT !.result = XRaise("RuntimeError")]
    ELSE IF \E k \in local_scenarios : k \notin y.objs
    THEN [y EXCEPT !.result = XRaise("RuntimeError")]
    ELSE [y EXCEPT !.result =
                     XOk(SumOver(local_scenarios,
                                 [k \in local_scenarios |-> Prob[k] * Fct(XObj[k])])),
                   !.reduced = TRUE,
                   !.trace = Append(@, "Eobjective")]

\* _fix_nonants(cache), _fix_nonants_at_value (lines 346-385) and
\* fix_nonants_upto_stage: the nonants are fixed
fix_nonants(x) == [x EXCEPT !.fixed = TRUE, !.trace = Append(@, "fix")]

\* s._mpisppy_node_list of each local scenario on a three-stage tree: the
\* non-leaf nodes on the scenario's path, the root (stage 1) first
node_list ==
    [k \in Scens |->
        <<[name |-> "ROOT", stage |-> 1],
          [name |-> IF k = 1 THEN "ROOT_0" ELSE "ROOT_1", stage |-> 2]>>]

NodeNames ==
    UNION {{node_list[k][i].name : i \in DOMAIN node_list[k]} : k \in Scens}

\* the fixing of one node's nonant Vars (lines 330-340)
fix_node(x) ==
    IF \E i \in 1..Len(x.trace) : x.trace[i] = "fix" THEN [x EXCEPT !.fixed = TRUE]
    ELSE [x EXCEPT !.fixed = TRUE, !.trace = Append(@, "fix")]

RECURSIVE FixNodes(_, _, _, _)
\* the inner loop of fix_nonants_upto_stage (lines 317-340) over the nodes
\* of one scenario: a node of stage <= t that the cache cannot serve raises
\* (lines 320-329), after the nodes before it were fixed
FixNodes(x, nodes, t, cache) ==
    IF nodes = <<>> THEN x
    ELSE LET node == Head(nodes) IN
         IF node.stage <= t
         THEN IF node.name \notin cache
              THEN [x EXCEPT !.result = XRaise("RuntimeError")]
              ELSE FixNodes(fix_node(x), Tail(nodes), t, cache)
         ELSE FixNodes(x, Tail(nodes), t, cache)

RECURSIVE FixScenarios(_, _, _, _)
\* the outer loop of fix_nonants_upto_stage (line 311) over the local
\* scenarios ks in order; an exception ends the call
FixScenarios(x, ks, t, cache) ==
    IF ks = <<>> THEN x
    ELSE LET y == FixNodes(x, node_list[Head(ks)], t, cache) IN
         IF y.result.kind = "RuntimeError" THEN y
         ELSE FixScenarios(y, Tail(ks), t, cache)

\* fix_nonants_upto_stage(t, cache) (lines 298-340); cache is the set of
\* node names for which it holds values of the right length
fix_nonants_upto_stage(x, t, cache) ==
    FixScenarios(lazy_create_solvers(x), InOrder(local_scenarios), t, cache)

\* mutation: evaluate solves the subproblems, not the scenarios
evaluate_over_subproblems == FALSE

\* evaluate, line 285: use_scenarios_not_subproblems=True
evaluate_uses_scenarios == TRUE

\* mutation: infeasibility is not looked at
incumbent_ignores_infeasibility(infeasP, y) == Eobjective(y, FALSE)

\* calculate_incumbent, lines 406-412
incumbent_result(infeasP, y) ==
    IF infeasP # 0 THEN [y EXCEPT !.result = XNone]
    ELSE Eobjective(y, FALSE)

\* infeas_prob(): the probability of the scenarios that were infeasible
infeas_prob(x) == SumOver(x.infeas, [k \in x.infeas |-> Prob[k]])

\* a call begins: what the last call left behind is cleared
Begin(x, op, arg, flag) ==
    [x EXCEPT !.calls = @ + 1, !.op = op, !.arg = arg, !.flag = flag,
              !.trace = <<>>, !.reduced = FALSE, !.result = XNone]

Feasibilities == [Scens \cup {BundleKey} -> BOOLEAN]

\* a call of solve_one (lines 76-105); asking for the value on an object
\* that has no objs_dict fails at line 103, after the solve
XSolveOne ==
    /\ xe.calls < MaxCalls
    /\ \E k \in local_subproblems(xe.bundling), feasible \in BOOLEAN,
          cva \in BOOLEAN :
         LET x0 == Begin(xe, "solve_one", k, cva) IN
         xe' = IF cva /\ ~x0.hasObjs
               THEN [solve_one(x0, k, feasible, FALSE)
                       EXCEPT !.result = XRaise("AttributeError")]
               ELSE [solve_one(x0, k, feasible, cva) EXCEPT !.result = XOk(0)]
    /\ UNCHANGED <<hubVars, sp, replay>>

\* a call of solve_loop (lines 108-181); the method has no return statement
XSolveLoop ==
    /\ xe.calls < MaxCalls
    /\ \E useScen \in BOOLEAN, cva \in BOOLEAN, feas \in Feasibilities :
         xe' = [solve_loop(Begin(xe, "solve_loop", 0, cva), useScen, feas, cva)
                  EXCEPT !.result = XNone]
    /\ UNCHANGED <<hubVars, sp, replay>>

\* a call of Eobjective (lines 184-229), with or without fct
XEobjective ==
    /\ xe.calls < MaxCalls
    /\ \E withFct \in BOOLEAN :
         xe' = Eobjective(Begin(xe, "Eobjective", 0, withFct), withFct)
    /\ UNCHANGED <<hubVars, sp, replay>>

\* a call of evaluate_one (lines 233-263) for one local scenario
XEvaluateOne ==
    /\ xe.calls < MaxCalls
    /\ \E k \in local_scenarios, feasible \in BOOLEAN :
         LET y == fix_nonants(lazy_create_solvers(Begin(xe, "evaluate_one", k, TRUE)))
             z == IF y.hasObjs THEN y ELSE [y EXCEPT !.hasObjs = TRUE, !.objs = {}] IN
         xe' = [solve_one(z, k, feasible, TRUE) EXCEPT !.result = XOk(XObj[k])]
    /\ UNCHANGED <<hubVars, sp, replay>>

\* a call of evaluate (lines 265-294)
XEvaluate ==
    /\ xe.calls < MaxCalls
    /\ \E withFct \in BOOLEAN, feas \in Feasibilities :
         LET y == fix_nonants(lazy_create_solvers(Begin(xe, "evaluate", 0, withFct))) IN
         xe' = Eobjective(solve_loop(y, evaluate_uses_scenarios, feas, TRUE), withFct)
    /\ UNCHANGED <<hubVars, sp, replay>>

\* a call of fix_nonants_upto_stage (lines 298-340) with a stage t and a
\* cache serving any set of nodes
XFixNonantsUptoStage ==
    /\ xe.calls < MaxCalls
    /\ \E t \in 0..Len(node_list[1]), cache \in SUBSET NodeNames :
         xe' = fix_nonants_upto_stage(
                   Begin(xe, "fix_nonants_upto_stage", t, NodeNames \subseteq cache),
                   t, cache)
    /\ UNCHANGED <<hubVars, sp, replay>>

\* a call of calculate_incumbent (lines 387-412)
XCalculateIncumbent ==
    /\ xe.calls < MaxCalls
    /\ \E fix \in BOOLEAN, feas \in Feasibilities :
         LET y == lazy_create_solvers(Begin(xe, "calculate_incumbent", 0, fix))
             z == IF fix THEN fix_nonants(y) ELSE y
             s == solve_loop(z, FALSE, feas, FALSE) IN
         xe' = incumbent_result(infeas_prob(s), s)
    /\ UNCHANGED <<hubVars, sp, replay>>

XhatNext ==
    \/ XSolveOne \/ XSolveLoop \/ XEobjective \/ XEvaluateOne \/ XEvaluate
    \/ XFixNonantsUptoStage \/ XCalculateIncumbent

(* --------------------------- specifications ---------------------------- *)
HubInit ==
    /\ hubPc = "iterate"
    /\ hubIdx = 1
    /\ pending = InitW
    /\ buf = InitW
    /\ wbegin = 0
    /\ version = 0
    /\ written = [v \in 1..MaxVersion |-> InitW]
    /\ kill = FALSE
    /\ killSets = 0
    /\ collected = [s \in Spokes |-> 0]

Init ==
    /\ \E opt \in [OneSpoke -> OptionEntries], ext \in [OneSpoke -> BOOLEAN] :
         sp = [s \in OneSpoke |-> SpokeInit(opt[s], ext[s])]
    /\ HubInit
    /\ replay = NoReplay
    /\ xe = XInit(FALSE)

Next == HubNext \/ \E s \in Spokes : SpokeNext(s)

Spec == Init /\ [][Next]_vars

\* every spoke process keeps running (one process per spoke, a tight loop)
FairSpec == Spec /\ \A s \in OneSpoke : WF_vars(SpokeNext(s))

\* only the hub process is sure to keep running; spokes may be slow or dead
HubFairSpec == Spec /\ WF_vars(HubNext)

\* the protocol's variables while a comparison runs
ProtocolIdle ==
    /\ sp = [s \in OneSpoke |-> SpokeInit([present |-> FALSE, value |-> FALSE], FALSE)]
    /\ HubInit

\* a run with two spokes against the one hub: one with the idle-time action
\* and extensions, one with neither
TwoSpokeInit ==
    /\ sp = [s \in TwoSpokes |->
                IF s = 1 THEN SpokeInit([present |-> TRUE, value |-> TRUE], TRUE)
                ELSE SpokeInit([present |-> FALSE, value |-> FALSE], FALSE)]
    /\ HubInit
    /\ replay = NoReplay
    /\ xe = XInit(FALSE)

TwoSpokeSpec == TwoSpokeInit /\ [][Next]_vars

\* two runs, every configuration, every feed, every deterministic solver
ReplayInit ==
    /\ ProtocolIdle
    /\ xe = XInit(FALSE)
    /\ \E f \in Feeds, o \in OptionEntries, bad \in SUBSET (WChoices \cup {InitW}) :
         replay = [NoReplay EXCEPT !.feed = f, !.opt = o, !.infeasible = bad]

ReplaySpec == ReplayInit /\ [][ReplayNext]_vars

\* a fresh Xhat_Eval object, with or without bundling, and any calls on it
XhatInit ==
    /\ ProtocolIdle
    /\ replay = NoReplay
    /\ \E bundling \in BOOLEAN : xe = XInit(bundling)

XhatSpec == XhatInit /\ [][XhatNext]_vars

(* ------------------------------- claims -------------------------------- *)
IsDone(s) == sp[s].pc \in {"done", "finalized"}

\* C1: no torn reads -- the data try_read returned together with version v
\* is exactly the data the hub wrote as version v
NoTornReads ==
    \A s \in Spokes :
        sp[s].localWs.ver >= 1 =>
            /\ sp[s].localWs.ver <= MaxVersion
            /\ sp[s].localWs.w = written[sp[s].localWs.ver]

\* C1 witness: a read that overlapped a write was rejected and retried, and
\* the reader then got version 2 while the hub had published two versions
NoTornReadsWitness ==
    \E s \in Spokes : sp[s].torn /\ sp[s].localWs.ver = 2 /\ written[1] # written[2]

\* C2: version monotonicity -- the versions a reader sees at its polls, and
\* the versions it consumes, never decrease
VersionMonotone ==
    [][\A s \in Spokes : /\ sp'[s].obs >= sp[s].obs
                         /\ sp'[s].lastSeen >= sp[s].lastSeen]_vars

\* C2 witness: a reader consumed version 1, worked on it, then consumed 2
VersionMonotoneWitness ==
    \E s \in Spokes : sp[s].W.ver = 1 /\ sp[s].lastSeen = 2

\* C3: the flag is a one-way latch -- once set it stays set, the hub sets it
\* once, and every later read of it by a spoke returns true
FlagIsLatch ==
    [][/\ kill => kill' /\ killSets' = killSets
       /\ killSets' <= 1
       /\ kill' <=> killSets' = 1
       /\ \A s \in Spokes :
            (kill /\ sp[s].pc = "check_kill" /\ sp'[s].pc # "check_kill")
                => sp'[s].got_kill]_vars

\* C3 witness: the flag was set and a spoke has read it as true
FlagIsLatchWitness == kill /\ \E s \in Spokes : sp[s].got_kill

\* C4: once a spoke has read the flag as true it is DONE -- no step of it
\* solves or sends a report any more
NoWorkAfterKillSeen ==
    [][\A s \in Spokes :
         sp[s].got_kill =>
            /\ IsDone(s) /\ sp'[s].pc \in {"done", "finalized"}
            /\ sp'[s].solves = sp[s].solves
            /\ sp'[s].report = sp[s].report
            /\ sp'[s].polled = sp[s].polled]_vars

\* C4 witness: a spoke is DONE although a version it has not consumed is
\* there, and it had worked and reported before
NoWorkAfterKillSeenWitness ==
    \E s \in Spokes : /\ sp[s].got_kill /\ sp[s].pc = "finalized"
                      /\ version > sp[s].lastSeen /\ sp[s].report.seq >= 2

\* C5: termination propagates -- once the flag is set, every spoke that
\* keeps running reaches DONE
TerminationPropagates == kill ~> (\A s \in Spokes : IsDone(s))

\* C5 witness: a spoke with the idle-time action enabled, and with an
\* unconsumed version waiting, has reached DONE after the flag was set
TerminationPropagatesWitness ==
    \E s \in Spokes : /\ kill /\ IsDone(s) /\ IdleActionEnabled(sp[s].options)
                      /\ sp[s].nIdle >= 1 /\ version > sp[s].lastSeen

\* C6: the hub never waits on a spoke -- as long as it has not terminated
\* one of its steps is enabled whatever the spokes' states, and running
\* alone it publishes up to its iteration cap and sets the flag
HubNeverWaits ==
    /\ [](hubPc # "done" => ENABLED HubNext)
    /\ <>(kill /\ hubPc = "done")

\* C6 witness: the hub published two versions and terminated while no
\* spoke had taken a single step
HubNeverWaitsWitness ==
    /\ kill /\ hubPc = "done" /\ version = 2
    /\ \A s \in Spokes : sp[s].pc = "init"

\* C7: staleness labelling -- the version a report carries is the version of
\* the weights its bound was solved with, and is at most the hub's latest
\* published version
ReportLabelled ==
    \A s \in Spokes :
        sp[s].report.seq > 0 =>
            /\ sp[s].report.tag = sp[s].report.from
            /\ sp[s].report.tag <= version

\* C7 witness: an idle-time report labelled 1 while the hub is at version 2
ReportLabelledWitness ==
    \E s \in Spokes : /\ sp[s].report.kind = "idle" /\ sp[s].report.tag = 1
                      /\ version = 2

\* C8 as stated: a read of the flag precedes the first solve and report
FlagReadBeforeStart ==
    \A s \in Spokes :
        (sp[s].solves > 0 \/ sp[s].report.seq > 0) => sp[s].flagRead

\* C8 amended: the first read of the flag follows the iteration-0 solve and
\* the trivial-bound report and precedes the first poll; a spoke started
\* with the flag already true does that one solve, sends that one report,
\* never polls, and is DONE at its first read
FlagReadAfterIter0 ==
    \A s \in Spokes :
        /\ sp[s].flagRead => sp[s].solves >= 1 /\ sp[s].report.seq >= 1
        /\ sp[s].polled => sp[s].flagRead
        /\ sp[s].lateStart =>
              /\ ~sp[s].polled
              /\ sp[s].solves <= 1 /\ sp[s].report.seq <= 1
              /\ sp[s].flagRead =>
                    (IsDone(s) /\ sp[s].solves = 1 /\ sp[s].report.seq = 1)

\* C8 witness: a spoke started after the flag was set is DONE with one solve
\* and one report
FlagReadAfterIter0Witness ==
    \E s \in Spokes : /\ sp[s].lateStart /\ sp[s].pc = "done"
                      /\ sp[s].solves = 1 /\ sp[s].report.kind = "trivial"

\* C9: WORKING only on a new version -- the weight-adopting solve runs only
\* right after a poll that returned a new version, with the weights the hub
\* published as that version, and never twice for one version
WorkingOnlyOnNew ==
    \A s \in Spokes :
        /\ sp[s].pc = "working" =>
              /\ sp[s].isNew
              /\ sp[s].localWs.ver >= 1
              /\ sp[s].localWs.ver = sp[s].lastSeen
              /\ sp[s].localWs.ver > sp[s].W.ver
        /\ sp[s].W.ver <= sp[s].localWs.ver
        /\ sp[s].W.ver <= version
        /\ sp[s].pc = "working_send" =>
              sp[s].isNew /\ sp[s].W.ver >= 1 /\ sp[s].W = sp[s].localWs

\* C9 witness: after a poll that found nothing, a later poll found version 2
\* and the WORKING solve ran on it
WorkingOnlyOnNewWitness ==
    \E s \in Spokes : /\ sp[s].pc = "working_send" /\ sp[s].nIdle >= 1
                      /\ sp[s].W.ver = 2

\* C10: iteration-0 ordering -- the first report is the trivial bound of the
\* initial weights; it is sent once, after PREP, before the first poll and
\* before any WORKING or idle-time report
TrivialBoundFirst ==
    \A s \in Spokes :
        /\ sp[s].report.seq = 1 <=> sp[s].report.kind = "trivial"
        /\ sp[s].report.seq >= 1 => sp[s].preps = 1
        /\ sp[s].polled => sp[s].report.seq >= 1
        /\ sp[s].report.kind = "trivial" =>
              /\ sp[s].report.tag = 0 /\ sp[s].report.from = 0
              /\ sp[s].report.val = sp[s].trivial_bound
              /\ sp[s].report.val \in {None, Some(Ebound(InitW))}

\* C10 witness: the second report of a spoke is a WORKING one
TrivialBoundFirstWitness ==
    \E s \in Spokes : sp[s].report.seq = 2 /\ sp[s].report.kind = "working"


\* C11 as stated: a failed local computation is an absent report -- no
\* report in the spoke's channel carries an absent value. Violated: the
\* report of iteration 0 is sent whatever lagrangian() returned (line 93)
NoAbsentReport ==
    \A s \in Spokes : sp[s].report.seq > 0 => sp[s].report.val.ok

\* C12: the bound reported by a WORKING step is the probability-weighted sum
\* of the local optima under the weights of the version the report is tagged
\* with, the version the spoke consumed last before the solve and installed
\* as the solver's weights; probabilities 60%, 40% and
\* optima 10, 20 under version 1 give 14 tagged version 1
WorkingBoundIsWeightedSum ==
    \A s \in Spokes :
        (sp[s].report.seq > 0 /\ sp[s].report.kind = "working") =>
            LET v == sp[s].report.tag
                w == written[v] IN
            /\ v \in 1..MaxVersion
            /\ v = sp[s].report.from
            /\ v <= sp[s].lastSeen
            /\ sp[s].report.val =
                   Some(Prob[1] * Optimum(1, w) + Prob[2] * Optimum(2, w))
            /\ (w = <<5, -3>> => sp[s].report.val = Some(1400))

WorkingBoundIsWeightedSumWitness ==
    \E s \in Spokes :
        /\ sp[s].report.kind = "working"
        /\ sp[s].report.tag = 1
        /\ written[1] = <<5, -3>>
        /\ Optimum(1, written[1]) = 10 /\ Optimum(2, written[1]) = 20
        /\ sp[s].report.val = Some(1400)

\* C13: with the option subgradient_while_waiting absent or false, the step
\* taken after a poll that found nothing new changes neither the weights,
\* the consensus inputs, the bound, the number of solves nor the report
IdleOffIsNoOp ==
    [][\A s \in Spokes :
          (sp[s].pc = "idle" /\ ~(sp[s].options.present /\ sp[s].options.value))
          => /\ sp'[s].W = sp[s].W
             /\ sp'[s].localWs = sp[s].localWs
             /\ sp'[s].x = sp[s].x
             /\ sp'[s].bound = sp[s].bound
             /\ sp'[s].solves = sp[s].solves
             /\ sp'[s].report = sp[s].report
             /\ sp'[s].pc \in {"idle", "check_kill"}]_vars

IdleOffIsNoOpWitness ==
    \E s \in Spokes :
        /\ ~sp[s].options.present
        /\ sp[s].nIdle = 1
        /\ sp[s].pc = "check_kill"
        /\ sp[s].solves = 1
        /\ sp[s].report.seq = 1

\* C14: after finalize, final_bound and the returned value are the value of
\* the last report the spoke sent; post_everything is called once, after
\* final_bound is set and before the return, exactly when extensions are
\* registered and have it, and never otherwise
FinalizeReturnsLastReport ==
    \A s \in Spokes :
        /\ sp[s].pc = "finalized" =>
              /\ sp[s].report.seq > 0
              /\ sp[s].final_bound = sp[s].report.val
              /\ sp[s].ret = sp[s].report.val
              /\ sp[s].log =
                    IF sp[s].extensions /\ sp[s].hasPost
                    THEN <<"final_bound", "post_everything", "return">>
                    ELSE <<"final_bound", "return">>
              /\ sp[s].posts = IF sp[s].extensions /\ sp[s].hasPost THEN 1 ELSE 0
        /\ sp[s].pc # "finalized" => sp[s].posts = 0

FinalizeReturnsLastReportWitness ==
    \E s \in Spokes :
        /\ sp[s].pc = "finalized"
        /\ sp[s].posts = 1
        /\ sp[s].report.seq = 3
        /\ sp[s].report.kind = "idle"
        /\ sp[s].ret = sp[s].report.val
        /\ sp[s].ret.ok
        /\ sp[s].ret # sp[s].trivial_bound

\* C16: lagrangian_prep runs once, before the first solve, the first report,
\* the first read of the flag and the first poll, and never again
PrepOnceBeforeAll ==
    \A s \in Spokes :
        /\ sp[s].preps <= 1
        /\ sp[s].pc \in {"init", "prep"} =>
              /\ sp[s].preps = 0
              /\ sp[s].solves = 0
              /\ sp[s].report.seq = 0
              /\ ~sp[s].flagRead
              /\ ~sp[s].polled
        /\ (sp[s].solves > 0 \/ sp[s].report.seq > 0 \/ sp[s].flagRead
              \/ sp[s].polled \/ sp[s].pc \notin {"init", "prep"})
              => sp[s].preps = 1

PrepOnceBeforeAllWitness ==
    \E s \in Spokes :
        /\ sp[s].preps = 1
        /\ sp[s].solves = 3
        /\ sp[s].polled
        /\ sp[s].PHIter = 3
        /\ sp[s].pc = "finalized"

\* C18: each channel has one writer -- the weights channel and the flag
\* change only in steps of the hub, at the hub's position for that write,
\* and such a step writes no spoke's report channel; a spoke's report
\* channel changes only in a send of that spoke, and such a step writes
\* neither a hub channel nor another spoke's state
SingleWriter ==
    [][/\ (buf' # buf) => (hubPc = "store" /\ sp' = sp)
       /\ (wbegin' # wbegin) => (hubPc = "iterate" /\ sp' = sp)
       /\ (version' # version) => (hubPc \in {"iterate", "publish"} /\ sp' = sp)
       /\ (kill' # kill) => (hubPc = "iterate" /\ sp' = sp)
       /\ \A s \in Spokes :
             (sp'[s].report # sp[s].report) =>
                 /\ sp[s].pc \in {"iter0_send", "working_send", "idle_send"}
                 /\ sp'[s].pc = "check_kill"
                 /\ sp'[s].report.seq = sp[s].report.seq + 1
                 /\ UNCHANGED hubVars
                 /\ \A t \in Spokes \ {s} : sp'[t] = sp[t]]_vars

\* C18 witness: in a run with two spokes the hub has written two versions
\* and the flag, both spokes have written their own channels (one twice,
\* with a WORKING report, the other once) and the hub has read both
SingleWriterWitness ==
    /\ Spokes = TwoSpokes
    /\ version = 2
    /\ kill
    /\ sp[1].report.seq = 2
    /\ sp[1].report.kind = "working"
    /\ sp[1].lastSeen = 2
    /\ sp[2].report.seq = 1
    /\ sp[2].report.kind = "trivial"
    /\ collected = [s \in TwoSpokes |-> 1]

\* C19: at most one report is sent after the flag was set, a spoke that has
\* read the flag as true is DONE, and a spoke that is DONE sends nothing
BoundedEmissionAfterKill ==
    /\ [](\A s \in Spokes :
             /\ sp[s].sentAfter <= 1
             /\ sp[s].got_kill => IsDone(s))
    /\ [][\A s \in Spokes :
             IsDone(s) => /\ sp'[s].report = sp[s].report
                          /\ sp'[s].solves = sp[s].solves
                          /\ IsDone(s)']_vars

BoundedEmissionAfterKillWitness ==
    \E s \in Spokes :
        /\ kill /\ IsDone(s)
        /\ sp[s].sentAfter = 1
        /\ sp[s].report.kind = "working"
        /\ sp[s].report.seq = 2

\* the complete records of a phase of main(), with and without extensions
PhaseRecords(ext) ==
    IF ext
    THEN {<<"pre_iter0", "iter0_solve", "post_iter0", "send",
            "post_iter0_after_sync">>,
          <<"miditer", "working_solve", "enditer", "send",
            "enditer_after_sync">>,
          <<"miditer", "working_solve", "enditer", "enditer_after_sync">>,
          <<"idle_solve", "send">>, <<"idle_solve">>}
    ELSE {<<"iter0_solve", "send">>, <<"working_solve", "send">>,
          <<"working_solve">>, <<"idle_solve", "send">>, <<"idle_solve">>}

IsPrefix(a, b) == Len(a) <= Len(b) /\ SubSeq(b, 1, Len(a)) = a

\* C20: what a phase has done so far is the beginning of one fixed order --
\* pre_iter0, solve, post_iter0, report, post_iter0_after_sync at iteration
\* 0; miditer, solve, enditer, report (if any), enditer_after_sync in a
\* WORKING step; solve and report (if any) with no hook in an idle-time
\* step -- a finished phase has done all of it, and without extensions no
\* hook is called at all
HookOrder ==
    \A s \in Spokes :
        /\ sp[s].pc # "finalized" =>
              \E full \in PhaseRecords(sp[s].extensions) : IsPrefix(sp[s].log, full)
        /\ (sp[s].pc = "check_kill" /\ sp[s].log # <<>>) =>
              sp[s].log \in PhaseRecords(sp[s].extensions)
        /\ ~sp[s].extensions =>
              \A i \in 1..Len(sp[s].log) :
                  sp[s].log[i] \in {"iter0_solve", "working_solve", "idle_solve",
                                    "send", "final_bound", "return"}

HookOrderWitness ==
    \E s \in Spokes :
        /\ sp[s].extensions
        /\ sp[s].report.seq = 2
        /\ sp[s].log = <<"miditer", "working_solve", "enditer", "send",
                         "enditer_after_sync">>

BothRunsDone == \A r \in Runs : replay.run[r].pc = "done"

NotSpeculative(rep) == rep.kind # "idle"

PublishedOverridesIdle ==
    [][\A s \in Spokes :
          /\ (sp[s].pc = "working" /\ sp'[s].pc = "working_send") =>
                /\ sp'[s].W.w = sp[s].localWs.w
                /\ sp'[s].W.w = written[sp[s].lastSeen]
                /\ sp'[s].W.ver = sp[s].lastSeen
                /\ sp'[s].x = [k \in Scens |-> SolveX(k, sp[s].localWs.w)]
                /\ sp'[s].bnd \in
                      {None, Some(Prob[1] * Optimum(1, sp[s].localWs.w)
                                   + Prob[2] * Optimum(2, sp[s].localWs.w))}
          /\ sp[s].pc \in {"idle", "idle_send"} =>
                /\ sp'[s].localWs = sp[s].localWs
                /\ sp'[s].lastSeen = sp[s].lastSeen]_vars

\* a WORKING step has just solved with version 2 after an idle-time step
\* moved W away from version 1 (its report differs from version 1's bound)
PublishedOverridesIdleWitness ==
    \E s \in Spokes :
        /\ sp[s].pc = "working_send"
        /\ sp[s].lastSeen = 2
        /\ written[1] # written[2]
        /\ sp[s].report.kind = "idle"
        /\ sp[s].report.tag = 1
        /\ sp[s].report.val # Some(Ebound(written[1]))
        /\ sp[s].W.w = written[2]
        /\ sp[s].bnd = Some(Ebound(written[2]))

\* the solves of idle-time steps so far: one per poll that found nothing
\* new when the idle-time action is enabled
IdleSolves(s) == IF IdleActionEnabled(sp[s].options) THEN sp[s].nIdle ELSE 0

\* the WORKING steps completed so far: every solve that is neither the
\* iteration-0 solve nor an idle-time solve, less the step in progress
WorkingCompleted(s) ==
    sp[s].solves - 1 - IdleSolves(s) - (IF sp[s].pc = "working_send" THEN 1 ELSE 0)

\* C25: _PHIter is 0 during the iteration-0 solve and from then on is 1 +
\* the number of WORKING steps completed; it grows by one at the end of a
\* WORKING step and no other step of the loop changes it
PHIterCountsWorking ==
    /\ [](\A s \in Spokes :
             /\ sp[s].pc \in {"init", "prep", "iter0_solve"} => sp[s].PHIter = 0
             /\ sp[s].pc \notin {"init", "prep", "iter0_solve"} =>
                   sp[s].PHIter = 1 + WorkingCompleted(s))
    /\ [][\A s \in Spokes :
             /\ sp[s].pc = "working_send" /\ sp'[s].pc # "working_send" =>
                   sp'[s].PHIter = sp[s].PHIter + 1
             /\ (sp[s].pc \in {"iter0_send", "check_kill", "update_Ws", "read",
                               "validate", "working", "idle", "idle_send",
                               "done", "finalized"}) =>
                   sp'[s].PHIter = sp[s].PHIter]_vars

PHIterCountsWorkingWitness ==
    \E s \in Spokes :
        /\ sp[s].PHIter = 3
        /\ sp[s].solves = 4
        /\ sp[s].nIdle = 1
        /\ sp[s].report.seq = 2
        /\ sp[s].pc = "check_kill"

\* C22: _create_solvers is invoked once, by the first call made on the
\* object and before any solve, and never again
SolversCreatedOnce ==
    /\ xe.creates <= 1
    /\ xe.created <=> xe.creates = 1
    /\ xe.calls >= 1 => xe.creates = 1
    /\ xe.calls = 1 =>
          (xe.trace # <<>> /\ xe.trace[1] = "create_solvers")
    /\ xe.calls > 1 =>
          \A i \in 1..Len(xe.trace) : xe.trace[i] # "create_solvers"
    /\ ~xe.earlySolve

SolversCreatedOnceWitness ==
    /\ xe.calls = 3
    /\ xe.op = "calculate_incumbent"
    /\ xe.creates = 1
    /\ xe.trace = <<"fix", "solve", "solve", "Eobjective">>

\* C23: Eobjective with fct raises RuntimeError, without reaching the
\* reduction, exactly when objs_dict does not exist or lacks a local
\* scenario, and otherwise returns the expectation of fct; after evaluate
\* every local scenario has a value and the call has not failed; after
\* an evaluate_one that left only its own scenario with a value it fails
EobjectiveNeedsValues ==
    /\ [](xe.op = "evaluate" =>
             /\ xe.hasObjs /\ local_scenarios \subseteq xe.objs
             /\ xe.result.kind = "ok"
             /\ xe.reduced)
    /\ [][(xe'.calls = xe.calls + 1 /\ xe'.op = "Eobjective" /\ xe'.flag) =>
             /\ (xe'.result.kind = "RuntimeError")
                   <=> (~xe.hasObjs \/ \E k \in local_scenarios : k \notin xe.objs)
             /\ xe'.result.kind = "RuntimeError" => ~xe'.reduced
             /\ xe'.result.kind # "RuntimeError" =>
                   /\ xe'.reduced
                   /\ xe'.result = XOk(Prob[1] * Fct(XObj[1]) + Prob[2] * Fct(XObj[2]))
             /\ xe.op = "evaluate" => xe'.result.kind = "ok"
             /\ (xe.op = "evaluate_one" /\ xe.objs = {xe.arg}) =>
                   xe'.result.kind = "RuntimeError"]_vars

EobjectiveNeedsValuesWitness ==
    /\ xe.calls = 2
    /\ xe.op = "Eobjective" /\ xe.flag
    /\ xe.hasObjs /\ xe.objs = {1}
    /\ xe.result.kind = "RuntimeError"
    /\ ~xe.reduced
    /\ xe.fixed

\* C24: calculate_incumbent returns None exactly when the probability of
\* infeasible scenarios after its solve loop is not zero, otherwise the
\* expected objective, and never raises; the nonants are fixed, before the
\* first solve, exactly when fix_nonants is true
IncumbentNoneIffInfeasible ==
    xe.op = "calculate_incumbent" =>
        /\ xe.result = XNone <=> infeas_prob(xe) # 0
        /\ infeas_prob(xe) = 0 =>
              /\ xe.result = XOk(Prob[1] * XObj[1] + Prob[2] * XObj[2])
              /\ xe.reduced
        /\ xe.result.kind \in {"ok", "None"}
        /\ (\E i \in 1..Len(xe.trace) : xe.trace[i] = "fix") <=> xe.flag
        /\ \A i, j \in 1..Len(xe.trace) :
              (xe.trace[i] = "fix" /\ xe.trace[j] = "solve") => i < j
        /\ \E i \in 1..Len(xe.trace) : xe.trace[i] = "solve"

IncumbentNoneIffInfeasibleWitness ==
    /\ xe.op = "calculate_incumbent"
    /\ ~xe.flag
    /\ xe.infeas = {2}
    /\ xe.result = XNone
    /\ xe.trace = <<"create_solvers", "solve", "solve">>
====
